---- MODULE Spec2Model ----
(***************************************************************************)
(* Model of buildbot-config/builds.py: the schedulers, build factories and *)
(* locks that the file declares for every project, run by the Buildbot     *)
(* master.  A build target instance is one record of the sequence builds;  *)
(* the locks are the MasterLock "src-<project>" and the WorkerLock         *)
(* "worker".                                                               *)
(***************************************************************************)
EXTENDS Integers, Sequences, FiniteSets, TLC

VARIABLES
    builds,        \* every build request / build ever made, in request order
    srcOwners,     \* lock_src of each project: set of <<build, mode>>
    workerOwners,  \* lock_build of each worker: set of builds holding it
    timer,         \* treeStableTimer of each branch scheduler (None: not armed)
    pend,          \* ages of the changes each branch scheduler has not built yet
    head,          \* newest revision of each branch of each upstream repository
    tree,          \* revision checked out in /data/src/<project>
    lastTrigger,   \* revision recorded by each NightlyTriggerable (None: nothing new)
    forced,        \* number of operator requests made so far
    quota,         \* what the environment may ask for in this behaviour
    projects,      \* the list of Build objects the configuration is made from
    catalog,       \* the list of platform objects
    cfg,           \* the schedulers and builders given to the master so far
    pc             \* the Build object and the call the loading has come to

\* the configuration and its loading
conf == <<projects, catalog, cfg, pc>>

vars == <<builds, srcOwners, workerOwners, timer, pend, head, tree, lastTrigger, forced,
          quota, conf>>

\* ---------------------------------------------------------------- bounds
MaxBuilds == 5      \* build requests in one behaviour
MaxChanges == 2     \* source changes in one behaviour
MaxBurst == 3       \* source changes in one behaviour of the schedulers alone
MaxForced == 1      \* operator (force scheduler) requests in one behaviour
MaxParallelBuilds == 2   \* config.max_parallel_builds
MaxProjects == 2    \* Build objects in a list the loading is tried on

\* ---------------------------------------------------------------- configuration
\* a property that is not set renders as None
None == "None"

\* no revision (a source stamp without revision, got_revision not set)
NoRev == 0

\* a treeStableTimer that is not armed
NoTimer == -1

\* builds (the list at the end of the file)
Projects == {"master", "stable", "gsoc2012"}

\* the platforms catalog consumed by getGlobalSchedulers / getPerPlatformBuilders
platforms == <<"linux", "windows">>

Platforms == {platforms[i] : i \in DOMAIN platforms}

Workers == {"fetcher", "builder"}

\* StandardBuild.__init__: nightly = None unless given
nightly(p) == IF p \in {"master", "stable"} THEN <<4, 1>> ELSE <<>>

HasNightly(p) == nightly(p) # <<>>

\* StandardBuild.__init__: enable_force = True unless given
enable_force(p) == p # "stable"

\* StandardBuild.__init__: baseurl, giturl = baseurl + ".git", branch
baseurl(p) == IF p \in {"master", "stable"} THEN "github.com/scummvm/scummvm"
              ELSE "github.com/digitall/scummvm"

giturl(p) == baseurl(p) \o ".git"

branch(p) ==
    CASE p = "master" -> "master"
      [] p = "stable" -> "branch-2-2"
      [] OTHER -> "gsoc2012-scalers-cont"

\* the class attribute PATCHES (number of patches)
PATCHES(p) == IF p = "gsoc2012" THEN 1 ELSE 0

\* platform.canBuild(build)
canBuild(e, p) == p = "gsoc2012" \/ (p = "master" /\ e = "linux")

\* platform.canBuildTests(build)
canBuildTests(e, p) == e = "linux" /\ p = "gsoc2012"

\* platform.getPackagingCmd(build) is not None
hasPackagingCmd(e, p) == e = "windows"

\* platform.getStripCmd(build) is not None
hasStripCmd(e, p) == e = "linux" /\ p = "gsoc2012"

\* platform.canPackage(build)
canPackage(e, p) == e = "linux" /\ p = "gsoc2012"

\* platform.canRunTests(build)
canRunTests(e, p) == e = "linux"

\* treeStableTimer of the branch scheduler
treeStableTimer == 300

\* the clock advances in steps of this many time units
Dts == {100}

\* (mutant) the fetcher worker gets the cap of the builder worker
maxCountUniform(w) == MaxParallelBuilds

\* lock_build: maxCountForWorker
maxCountForWorker(w) == IF w = "fetcher" THEN 1 ELSE MaxParallelBuilds

\* comp_builders: the platforms p is built on, in catalog order
comp_builders(p) == SelectSeq(platforms, LAMBDA e : canBuild(e, p))

\* ---------------------------------------------------------------- objects
\* StandardBuild.__init__ (giturl not given; PATCHES is the class attribute)
StandardBuild(name, url, br, at, force) ==
    [name |-> name, class |-> "ScummVMBuild",
     baseurl |-> url, giturl |-> url \o ".git", branch |-> br,
     nightly |-> at, enable_force |-> force, PATCHES |-> 0]

\* a Build object of the list builds
Build(p) ==
    [StandardBuild(p, baseurl(p), branch(p), nightly(p), enable_force(p))
        EXCEPT !.PATCHES = PATCHES(p)]

\* a platform object: the builds each of its predicates holds for, and those
\* it has a packaging or a strip command for
Platform(e) ==
    [name |-> e,
     canBuild |-> {p \in Projects : canBuild(e, p)},
     canBuildTests |-> {p \in Projects : canBuildTests(e, p)},
     canRunTests |-> {p \in Projects : canRunTests(e, p)},
     getPackagingCmd |-> {p \in Projects : hasPackagingCmd(e, p)},
     getStripCmd |-> {p \in Projects : hasStripCmd(e, p)},
     canPackage |-> {p \in Projects : canPackage(e, p)}]

\* ---------------------------------------------------------------- build factories
\* a step as addStep takes it: no lock, no scheduler to trigger
addStep(step) ==
    [step |-> step, locks |-> {}, schedulerNames |-> <<>>, waitForFinish |-> FALSE,
     command |-> None]

StepNames(f) == [i \in DOMAIN f |-> f[i].step]

\* the factory of fetch-<name>: Git, Patch if PATCHES, Trigger of the nightly
\* scheduler if nightly, Trigger of the build scheduler
FetchFactory(self) ==
    <<[addStep("git") EXCEPT !.locks = {<<"src", "exclusive">>}]>>
    \o (IF self.PATCHES > 0
        THEN <<[addStep("patch") EXCEPT !.locks = {<<"src", "exclusive">>}]>> ELSE <<>>)
    \o (IF self.nightly # <<>>
        THEN <<[addStep("signal") EXCEPT
                  !.schedulerNames = <<"nightly-scheduler-" \o self.name>>]>>
        ELSE <<>>)
    \o <<[addStep("trigger") EXCEPT
            !.schedulerNames = <<"build-scheduler-" \o self.name>>,
            !.waitForFinish = TRUE]>>

\* the factory of nightly-<name>: the Trigger of the build scheduler alone
NightlyFactory(self) ==
    <<[addStep("trigger") EXCEPT
         !.schedulerNames = <<"build-scheduler-" \o self.name>>,
         !.waitForFinish = TRUE]>>

\* platform.getPackagingCmd(build)
getPackagingCmd(platform, self) ==
    IF self.name \in platform.getPackagingCmd THEN "dist-" \o platform.name ELSE None

\* platform.getStripCmd(build)
getStripCmd(platform, self) ==
    IF self.name \in platform.getStripCmd THEN "strip-" \o platform.name ELSE None

\* the Test step: ScummVMBuild adds it if the platform can build the tests
\* (the runner alone is compiled where it cannot run them); ScummVMToolsBuild
\* has no tests
TestSteps(self, platform) ==
    IF self.class = "ScummVMBuild" /\ self.name \in platform.canBuildTests
    THEN <<[addStep("test") EXCEPT
              !.command = IF self.name \in platform.canRunTests
                          THEN "make test" ELSE "make test/runner"]>>
    ELSE <<>>

\* (mutant) the binaries are stripped also when a packaging command exists
StripStepsAlways(self, platform) ==
    IF getStripCmd(platform, self) # None
    THEN <<[addStep("strip") EXCEPT !.command = getStripCmd(platform, self)]>>
    ELSE <<>>

\* the Strip step: only without a packaging command, if there is a strip command
StripSteps(self, platform) ==
    IF getPackagingCmd(platform, self) # None THEN <<>>
    ELSE IF getStripCmd(platform, self) # None
    THEN <<[addStep("strip") EXCEPT !.command = getStripCmd(platform, self)]>>
    ELSE <<>>

\* the packaging steps, with the packaging command (or None) as disttarget
PackageSteps(self, platform) ==
    IF self.name \in platform.canPackage
    THEN <<[addStep("package") EXCEPT !.command = getPackagingCmd(platform, self)]>>
    ELSE <<>>

\* the factory of <name>-<platform>
PlatformFactory(self, platform) ==
    <<addStep("clean"), addStep("check"), addStep("configure"), addStep("compile")>>
    \o TestSteps(self, platform)
    \o StripSteps(self, platform)
    \o PackageSteps(self, platform)

\* the steps of the factories made from the list builds and the platforms
factories ==
    [p \in Projects |->
        [fetch |-> StepNames(FetchFactory(Build(p))),
         nightly |-> StepNames(NightlyFactory(Build(p))),
         platform |-> [e \in Platforms |->
                         StepNames(PlatformFactory(Build(p), Platform(e)))]]]

FetchSteps(p) == factories[p].fetch

NightlySteps(p) == factories[p].nightly

PlatformSteps(p, e) == factories[p].platform[e]

\* haltOnFailure of each step class: Git (Source), Configure and Compile set
\* it, Test and Trigger leave the BuildStep default (False)
haltOnFailure(s) == s \in {"git", "configure", "compile"}

\* the steps of scummsteps (Patch, Clean, SetPropertyIfOlder, Strip, package
\* steps) stop the build when they fail
scummHalt(s) == s \in {"patch", "clean", "check", "strip", "package"}

Halts(s) == haltOnFailure(s) \/ scummHalt(s)

\* (mutant) fetch-<p> and nightly-<p> hold the source lock for the whole build
GlobalBuilderLocksSrc == {<<"worker", "counting">>, <<"src", "exclusive">>}

\* locks of the BuilderConfig of fetch-<p> and nightly-<p>
GlobalBuilderLocks == {<<"worker", "counting">>}

\* (mutant) the platform builders do not take the source lock
PlatformBuilderLocksNoSrc == {<<"worker", "counting">>}

\* locks of the BuilderConfig of <p>-<e>
PlatformBuilderLocks == {<<"worker", "counting">>, <<"src", "counting">>}

\* workername of a builder
workername(kind) == IF kind = "platform" THEN "builder" ELSE "fetcher"

BuilderLocks(kind) ==
    IF kind = "platform" THEN PlatformBuilderLocks ELSE GlobalBuilderLocks

\* the access a builder asks of the source lock, if any
SrcAccess(kind) == {l[2] : l \in {k \in BuilderLocks(kind) : k[1] = "src"}}

WorkerAccess(kind) == {l[2] : l \in {k \in BuilderLocks(kind) : k[1] = "worker"}}

\* locks of the Git and Patch steps: lock_src.access("exclusive")
StepLocked(s) == s \in {"git", "patch"}

\* ---------------------------------------------------------------- schedulers and builders
\* (mutant) every platform of the catalog is taken, whatever canBuild says
builderNamesAll(self, plats) ==
    [i \in DOMAIN plats |-> self.name \o "-" \o plats[i].name]

\* comp_builders of getGlobalSchedulers: the builder names "<name>-<platform>"
\* of the platforms that can build self, in catalog order
builderNames(self, plats) ==
    LET can == SelectSeq(plats, LAMBDA pl : self.name \in pl.canBuild)
    IN [i \in DOMAIN can |-> self.name \o "-" \o can[i].name]

Scheduler(class, name, names) == [class |-> class, name |-> name, builderNames |-> names]

\* (mutant) the nightly scheduler is made for every project
NightlySchedulersAlways(self) ==
    <<Scheduler("NightlyTriggerable", "nightly-scheduler-" \o self.name,
                <<"nightly-" \o self.name>>)>>

\* the nightly scheduler, if self.nightly is not None
NightlySchedulers(self) ==
    IF self.nightly # <<>>
    THEN <<Scheduler("NightlyTriggerable", "nightly-scheduler-" \o self.name,
                     <<"nightly-" \o self.name>>)>>
    ELSE <<>>

\* the force schedulers, if self.enable_force
ForceSchedulers(self, plats) ==
    IF self.enable_force
    THEN <<Scheduler("ForceScheduler", "force-scheduler-" \o self.name \o "-fetch",
                     <<"fetch-" \o self.name>>),
           Scheduler("ForceScheduler", "force-scheduler-" \o self.name \o "-build",
                     builderNames(self, plats))>>
    ELSE <<>>

\* StandardBuild.getGlobalSchedulers
getGlobalSchedulers(self, plats) ==
    <<Scheduler("SingleBranchScheduler", "branch-scheduler-" \o self.name,
                <<"fetch-" \o self.name>>)>>
    \o NightlySchedulers(self)
    \o <<Scheduler("Triggerable", "build-scheduler-" \o self.name,
                   builderNames(self, plats))>>
    \o ForceSchedulers(self, plats)

BuilderConfig(name, worker, f, locks, tags) ==
    [name |-> name, workername |-> worker, factory |-> f, locks |-> locks, tags |-> tags]

\* StandardBuild.getGlobalBuilders
getGlobalBuilders(self) ==
    <<BuilderConfig("fetch-" \o self.name, "fetcher", FetchFactory(self),
                    GlobalBuilderLocks, <<"fetch">>)>>
    \o (IF self.nightly # <<>>
        THEN <<BuilderConfig("nightly-" \o self.name, "fetcher", NightlyFactory(self),
                             GlobalBuilderLocks, <<"nightly">>)>>
        ELSE <<>>)

\* ScummVMBuild.getPerPlatformBuilders, ScummVMToolsBuild.getPerPlatformBuilders
getPerPlatformBuilders(self, platform) ==
    IF self.name \notin platform.canBuild THEN <<>>
    ELSE <<BuilderConfig(self.name \o "-" \o platform.name, "builder",
                         PlatformFactory(self, platform),
                         PlatformBuilderLocks, <<self.name>>)>>

\* the builders of self on the platforms from index j on
RECURSIVE PerPlatform(_, _, _)
PerPlatform(self, plats, j) ==
    IF j > Len(plats) THEN <<>>
    ELSE getPerPlatformBuilders(self, plats[j]) \o PerPlatform(self, plats, j + 1)

\* the schedulers and builders of the Build objects from index i on
RECURSIVE Loaded(_, _, _)
Loaded(projs, plats, i) ==
    IF i > Len(projs) THEN [schedulers |-> <<>>, builders |-> <<>>]
    ELSE LET rest == Loaded(projs, plats, i + 1) IN
         [schedulers |-> getGlobalSchedulers(projs[i], plats) \o rest.schedulers,
          builders |-> getGlobalBuilders(projs[i]) \o PerPlatform(projs[i], plats, 1)
                       \o rest.builders]

\* ---------------------------------------------------------------- loading
\* the call the loading makes next
At(i, call, j) == [build |-> i, call |-> call, platform |-> j]

\* after the last call for a Build object: the next object, or the end
NextBuild(i) ==
    IF i < Len(projects) THEN At(i + 1, "getGlobalSchedulers", 0) ELSE At(i, "done", 0)

\* the schedulers of a Build object are added to the configuration
LoadSchedulers ==
    /\ pc.call = "getGlobalSchedulers"
    /\ cfg' = [cfg EXCEPT !.schedulers = @ \o getGlobalSchedulers(projects[pc.build], catalog)]
    /\ pc' = At(pc.build, "getGlobalBuilders", 0)
    /\ UNCHANGED <<builds, srcOwners, workerOwners, timer, pend, head, tree, lastTrigger,
                   forced, quota, projects, catalog>>

\* the fetch and nightly builders of a Build object are added
LoadBuilders ==
    /\ pc.call = "getGlobalBuilders"
    /\ cfg' = [cfg EXCEPT !.builders = @ \o getGlobalBuilders(projects[pc.build])]
    /\ pc' = IF catalog = <<>> THEN NextBuild(pc.build)
             ELSE At(pc.build, "getPerPlatformBuilders", 1)
    /\ UNCHANGED <<builds, srcOwners, workerOwners, timer, pend, head, tree, lastTrigger,
                   forced, quota, projects, catalog>>

\* the builders of a Build object on one platform are added
LoadPlatformBuilders ==
    /\ pc.call = "getPerPlatformBuilders"
    /\ cfg' = [cfg EXCEPT !.builders =
                @ \o getPerPlatformBuilders(projects[pc.build], catalog[pc.platform])]
    /\ pc' = IF pc.platform < Len(catalog)
             THEN At(pc.build, "getPerPlatformBuilders", pc.platform + 1)
             ELSE NextBuild(pc.build)
    /\ UNCHANGED <<builds, srcOwners, workerOwners, timer, pend, head, tree, lastTrigger,
                   forced, quota, projects, catalog>>

\* ---------------------------------------------------------------- builds
Steps(bd) ==
    CASE bd.kind = "fetch" -> FetchSteps(bd.proj)
      [] bd.kind = "nightly" -> NightlySteps(bd.proj)
      [] OTHER -> PlatformSteps(bd.proj, bd.plat)

CurStep(bd) == Steps(bd)[bd.step]

\* a build request as a scheduler makes it
NewBuild(kind, p, e, origin, clean, package, rev, got, parent) ==
    [kind |-> kind, proj |-> p, plat |-> e, origin |-> origin,
     clean |-> clean, package |-> package, rev |-> rev, got |-> got,
     parent |-> parent, state |-> "pending", step |-> 1,
     holding |-> FALSE, waiting |-> FALSE, result |-> "SUCCESS",
     signalled |-> FALSE]

Ids == DOMAIN builds

Finished(b) == builds[b].state \in {"succeeded", "failed", "released"}

Children(b) == {c \in Ids : builds[c].parent = b}

\* doStepIf of a step: Clean runs if the clean property is true, Configure
\* if the do_configure property is (default True)
doStepIf(bd, s, do_configure) ==
    CASE s = "clean" -> bd.clean = "True"
      [] s = "configure" -> do_configure
      [] OTHER -> TRUE

\* the first step from index i on whose doStepIf holds (Len + 1: none is left)
RECURSIVE NextStep(_, _, _)
NextStep(bd, i, do_configure) ==
    IF i > Len(Steps(bd)) THEN i
    ELSE IF doStepIf(bd, Steps(bd)[i], do_configure) THEN i
    ELSE NextStep(bd, i + 1, do_configure)

\* the result of a build after a step that ends with res (flunkOnFailure)
Worst(r1, r2) == IF "FAILURE" \in {r1, r2} THEN "FAILURE" ELSE "SUCCESS"

\* what a build becomes when its current step ends with result res: the build
\* ends after its last step, or at once when a step with haltOnFailure fails
StepDone(bd, res, do_configure) ==
    LET r == Worst(bd.result, res)
        n == NextStep(bd, bd.step + 1, do_configure)
        over == n > Len(Steps(bd)) \/ (res = "FAILURE" /\ Halts(CurStep(bd)))
    IN [bd EXCEPT !.result = r,
                  !.holding = FALSE, !.waiting = FALSE,
                  !.step = IF over THEN 0 ELSE n,
                  !.state = IF ~over THEN @
                            ELSE IF r = "FAILURE" THEN "failed" ELSE "succeeded"]

\* ---------------------------------------------------------------- locks
ExclOwners(p) == {o \in srcOwners[p] : o[2] = "exclusive"}

\* BaseLock.isAvailable of src-<p>, maxCount = sys.maxsize
srcAvailable(p, mode) ==
    IF mode = "counting" THEN ExclOwners(p) = {} ELSE srcOwners[p] = {}

\* BaseLock.isAvailable of the worker lock, counting access
workerAvailable(w) == Cardinality(workerOwners[w]) + 1 <= maxCountForWorker(w)

\* ---------------------------------------------------------------- budget
\* build requests a root request stands for: itself and the platform builds
\* its Trigger step will start
Cost(kind, p) == IF kind = "platform" THEN 1 ELSE 1 + Len(comp_builders(p))

RECURSIVE RootCost(_)
RootCost(i) ==
    IF i = 0 THEN 0
    ELSE RootCost(i - 1)
         + (IF builds[i].parent = 0 THEN Cost(builds[i].kind, builds[i].proj) ELSE 0)

RECURSIVE ArmedCost(_)
ArmedCost(S) ==
    IF S = {} THEN 0
    ELSE LET p == CHOOSE q \in S : TRUE
         IN (IF timer[p] # NoTimer THEN Cost("fetch", p) ELSE 0) + ArmedCost(S \ {p})

Reserved == RootCost(Len(builds)) + ArmedCost(Projects)

Room(n) == Reserved + n <= quota.builds

\* ---------------------------------------------------------------- upstream
\* the URLs a change can name: every project's baseurl and giturl
Repos == {baseurl(p) : p \in Projects} \cup {giturl(p) : p \in Projects}

Branches == {branch(p) : p \in Projects}

\* the repository a URL names (giturl is baseurl with ".git")
repository(url) ==
    CHOOSE r \in {baseurl(p) : p \in Projects} : url \in {r, r \o ".git"}

\* the branches of the upstream repositories
Refs == {<<baseurl(p), br>> : p \in Projects, br \in Branches}

\* the branch that fetch-<p> checks out
Ref(p) == <<baseurl(p), branch(p)>>

\* ---------------------------------------------------------------- initial state
\* nothing is requested, no lock is held, no source tree is checked out
Idle ==
    /\ builds = <<>>
    /\ srcOwners = [p \in Projects |-> {}]
    /\ workerOwners = [w \in Workers |-> {}]
    /\ timer = [p \in Projects |-> NoTimer]
    /\ pend = [p \in Projects |-> <<>>]
    /\ head = [r \in Refs |-> 1]
    /\ tree = [p \in Projects |-> NoRev]
    /\ lastTrigger = [p \in Projects |-> NoRev]
    /\ forced = 0

\* the master has just loaded the configuration made from the list builds and
\* the platforms
Start ==
    /\ Idle
    /\ projects = <<Build("master"), Build("stable"), Build("gsoc2012")>>
    /\ catalog = [i \in DOMAIN platforms |-> Platform(platforms[i])]
    /\ cfg = Loaded(projects, catalog, 1)
    /\ pc = At(Len(projects), "done", 0)

Init ==
    /\ Start
    /\ quota = [builds |-> MaxBuilds, changes |-> MaxChanges, forced |-> MaxForced,
                refs |-> {Ref("master"), Ref("gsoc2012")}]

\* ---------------------------------------------------------------- schedulers
\* (mutant) the filter looks at the repository alone
change_filterAnyBranch(p, repo, br) == repo \in {baseurl(p), giturl(p)}

\* change_filter of the branch scheduler of p
change_filter(p, repo, br) == repo \in {baseurl(p), giturl(p)} /\ br = branch(p)

\* (mutant) the timer runs from the first change of a burst
gotChangeFirst(p) ==
    [timer |-> IF timer[p] = NoTimer THEN treeStableTimer ELSE timer[p],
     pend |-> Append(pend[p], 0)]

\* (mutant) a change is dropped while fetch-<p> runs
gotChangeIdle(p) ==
    IF \E f \in DOMAIN builds : /\ builds[f].kind = "fetch" /\ builds[f].proj = p
                                /\ builds[f].state = "running"
    THEN [timer |-> timer[p], pend |-> pend[p]]
    ELSE [timer |-> treeStableTimer, pend |-> Append(pend[p], 0)]

\* SingleBranchScheduler.gotChange: the change is kept and the timer is set again
gotChange(p) ==
    [timer |-> treeStableTimer, pend |-> Append(pend[p], 0)]

RECURSIVE ChangesOf(_)
ChangesOf(S) ==
    IF S = {} THEN 0
    ELSE LET r == CHOOSE q \in S : TRUE IN (head[r] - 1) + ChangesOf(S \ {r})

\* changes made so far
Changes == ChangesOf(Refs)

\* a commit on branch br is reported to the master as a change of repo: every
\* branch scheduler whose change_filter accepts it takes it (a timer that is
\* due fires before anything else is reported)
Change(repo, br) ==
    LET ref == <<repository(repo), br>>
        hit == {p \in Projects : change_filter(p, repo, br)}
    IN
    /\ ref \in quota.refs
    /\ Changes < quota.changes
    /\ \A p \in hit : timer[p] # 0 /\ (timer[p] = NoTimer => Room(Cost("fetch", p)))
    /\ head' = [head EXCEPT ![ref] = @ + 1]
    /\ timer' = [p \in Projects |-> IF p \in hit THEN gotChange(p).timer ELSE timer[p]]
    /\ pend' = [p \in Projects |-> IF p \in hit THEN gotChange(p).pend ELSE pend[p]]
    /\ UNCHANGED <<builds, srcOwners, workerOwners, tree, lastTrigger, forced, quota, conf>>

\* time passes; an armed timer fires no later than when it is due
Tick(dt) ==
    /\ \E p \in Projects : timer[p] # NoTimer
    /\ \A p \in Projects : timer[p] # NoTimer => timer[p] >= dt
    /\ timer' = [p \in Projects |-> IF timer[p] = NoTimer THEN NoTimer ELSE timer[p] - dt]
    /\ pend' = [p \in Projects |-> [i \in DOMAIN pend[p] |-> pend[p][i] + dt]]
    /\ UNCHANGED <<builds, srcOwners, workerOwners, head, tree, lastTrigger, forced, quota, conf>>

\* branch-scheduler-<p>: the timer fires and fetch-<p> is requested for the
\* newest change
BranchFire(p) ==
    /\ timer[p] = 0
    /\ builds' = Append(builds,
          NewBuild("fetch", p, "-", "branch", None, None, head[Ref(p)], NoRev, 0))
    /\ timer' = [timer EXCEPT ![p] = NoTimer]
    /\ pend' = [pend EXCEPT ![p] = <<>>]
    /\ UNCHANGED <<srcOwners, workerOwners, head, tree, lastTrigger, forced, quota, conf>>

\* force-scheduler-<p>-fetch: the operator requests fetch-<p>
ForceFetch(p, clean, package) ==
    /\ enable_force(p)
    /\ forced < quota.forced
    /\ Room(Cost("fetch", p))
    /\ builds' = Append(builds,
          NewBuild("fetch", p, "-", "force", clean, package, NoRev, NoRev, 0))
    /\ forced' = forced + 1
    /\ UNCHANGED <<srcOwners, workerOwners, timer, pend, head, tree, lastTrigger, quota, conf>>

\* force-scheduler-<p>-build: the operator requests <p>-<e>
ForceBuild(p, e, clean, package) ==
    /\ enable_force(p)
    /\ \E i \in DOMAIN comp_builders(p) : comp_builders(p)[i] = e
    /\ forced < quota.forced
    /\ Room(Cost("platform", p))
    /\ builds' = Append(builds,
          NewBuild("platform", p, e, "force", clean, package, NoRev, NoRev, 0))
    /\ forced' = forced + 1
    /\ UNCHANGED <<srcOwners, workerOwners, timer, pend, head, tree, lastTrigger, quota, conf>>

\* (mutant) the recorded source stamp is kept after the build is requested
startBuildKeep(p) ==
    IF lastTrigger[p] = NoRev
    THEN UNCHANGED <<builds, lastTrigger>>
    ELSE /\ Room(Cost("nightly", p))
         /\ builds' = Append(builds,
               NewBuild("nightly", p, "-", "nightly", None, None, lastTrigger[p], NoRev, 0))
         /\ lastTrigger' = lastTrigger

\* NightlyTriggerable.startBuild: at the scheduled time, nightly-<p> is
\* requested for the recorded source stamp, if there is one
startBuild(p) ==
    IF lastTrigger[p] = NoRev
    THEN UNCHANGED <<builds, lastTrigger>>
    ELSE /\ Room(Cost("nightly", p))
         /\ builds' = Append(builds,
               NewBuild("nightly", p, "-", "nightly", None, None, lastTrigger[p], NoRev, 0))
         /\ lastTrigger' = [lastTrigger EXCEPT ![p] = NoRev]

\* nightly-scheduler-<p>: the scheduled time comes
NightlyTick(p) ==
    /\ HasNightly(p)
    /\ startBuild(p)
    /\ UNCHANGED <<srcOwners, workerOwners, timer, pend, head, tree, forced, quota, conf>>

\* ---------------------------------------------------------------- builds
\* Build.acquireLocks: the locks of the BuilderConfig are claimed together
ClaimBuilderLocks(b, bd) ==
    /\ workerOwners' =
          IF WorkerAccess(bd.kind) # {}
          THEN [workerOwners EXCEPT ![workername(bd.kind)] = @ \cup {b}]
          ELSE workerOwners
    /\ srcOwners' =
          [srcOwners EXCEPT ![bd.proj] = @ \cup {<<b, m>> : m \in SrcAccess(bd.kind)}]

\* (mutant) the source lock is not given back
ReleaseWorkerOnly(b, bd) ==
    /\ workerOwners' = [w \in Workers |-> workerOwners[w] \ {b}]
    /\ srcOwners' = srcOwners

\* Build.releaseLocks: the locks of the BuilderConfig are released
ReleaseBuilderLocks(b, bd) ==
    /\ workerOwners' = [w \in Workers |-> workerOwners[w] \ {b}]
    /\ srcOwners' =
          [srcOwners EXCEPT ![bd.proj] = @ \ {<<b, m>> : m \in SrcAccess(bd.kind)}]

\* a requested build starts once all the locks of its builder are available
StartBuild(b) ==
    LET bd == builds[b] IN
    /\ bd.state = "pending"
    /\ WorkerAccess(bd.kind) # {} => workerAvailable(workername(bd.kind))
    /\ \A m \in SrcAccess(bd.kind) : srcAvailable(bd.proj, m)
    /\ ClaimBuilderLocks(b, bd)
    /\ builds' = [builds EXCEPT ![b].state = "running", ![b].step = NextStep(bd, 1, TRUE)]
    /\ UNCHANGED <<timer, pend, head, tree, lastTrigger, forced, quota, conf>>

\* the Git or Patch step of a fetch build claims the source lock exclusively
AcquireStepLock(b) ==
    LET bd == builds[b] IN
    /\ bd.state = "running" /\ bd.kind = "fetch"
    /\ StepLocked(CurStep(bd)) /\ ~bd.holding
    /\ srcAvailable(bd.proj, "exclusive")
    /\ srcOwners' = [srcOwners EXCEPT ![bd.proj] = @ \cup {<<b, "exclusive">>}]
    /\ builds' = [builds EXCEPT ![b].holding = TRUE]
    /\ UNCHANGED <<workerOwners, timer, pend, head, tree, lastTrigger, forced, quota, conf>>

\* (mutant) the lock of a step is kept when the step ends
releaseLocksKeep(b, bd) == srcOwners' = srcOwners

\* BuildStep.releaseLocks: the locks of the step are released when it ends
releaseLocks(b, bd) ==
    srcOwners' = [srcOwners EXCEPT ![bd.proj] = @ \ {<<b, "exclusive">>}]

\* steps.Git: the tree is updated to the requested revision (the branch head
\* when none is requested); the step lock is released when the step ends
Git(b, ok) ==
    LET bd == builds[b]
        rev == IF bd.rev = NoRev THEN head[Ref(bd.proj)] ELSE bd.rev
    IN
    /\ bd.state = "running" /\ bd.kind = "fetch"
    /\ CurStep(bd) = "git" /\ bd.holding
    /\ releaseLocks(b, bd)
    /\ IF ok
       THEN /\ tree' = [tree EXCEPT ![bd.proj] = rev]
            /\ builds' = [builds EXCEPT ![b] = [StepDone(bd, "SUCCESS", TRUE) EXCEPT !.got = rev]]
       ELSE /\ tree' = tree
            /\ builds' = [builds EXCEPT ![b] = StepDone(bd, "FAILURE", TRUE)]
    /\ UNCHANGED <<workerOwners, timer, pend, head, lastTrigger, forced, quota, conf>>

\* scummsteps.Patch
Patch(b, ok) ==
    LET bd == builds[b] IN
    /\ bd.state = "running" /\ bd.kind = "fetch"
    /\ CurStep(bd) = "patch" /\ bd.holding
    /\ releaseLocks(b, bd)
    /\ builds' = [builds EXCEPT ![b] = StepDone(bd, IF ok THEN "SUCCESS" ELSE "FAILURE", TRUE)]
    /\ UNCHANGED <<workerOwners, timer, pend, head, tree, lastTrigger, forced, quota, conf>>

\* steps.Trigger "Updating source stamp": the nightly scheduler records the
\* revision; the step does not wait
Signal(b) ==
    LET bd == builds[b] IN
    /\ bd.state = "running" /\ bd.kind = "fetch"
    /\ CurStep(bd) = "signal"
    /\ lastTrigger' = [lastTrigger EXCEPT ![bd.proj] = bd.got]
    /\ builds' = [builds EXCEPT ![b] = [StepDone(bd, "SUCCESS", TRUE) EXCEPT !.signalled = TRUE]]
    /\ UNCHANGED <<srcOwners, workerOwners, timer, pend, head, tree, forced, quota, conf>>

\* (mutant) the nightly build passes its own clean and package on
set_propertiesSame(bd) ==
    [got |-> bd.got, clean |-> bd.clean, package |-> bd.package]

\* set_properties of the Trigger "Building all platforms"
set_properties(bd) ==
    IF bd.kind = "fetch"
    THEN [got |-> bd.got, clean |-> bd.clean, package |-> bd.package]
    ELSE [got |-> bd.got, clean |-> "True", package |-> "True"]

\* updateSourceStamp = True: the revision of the source stamp is got_revision
\* when the build has one
TriggerRev(bd) == IF bd.got # NoRev THEN bd.got ELSE bd.rev

\* steps.Trigger "Building all platforms" starts: build-scheduler-<p> requests
\* every builder of comp_builders
TriggerStart(b) ==
    LET bd == builds[b]
        comp == comp_builders(bd.proj)
        sp == set_properties(bd)
    IN
    /\ bd.state = "running" /\ bd.kind \in {"fetch", "nightly"}
    /\ CurStep(bd) = "trigger" /\ ~bd.waiting
    /\ builds' = [builds EXCEPT ![b].waiting = TRUE]
                 \o [i \in DOMAIN comp |->
                       NewBuild("platform", bd.proj, comp[i], "trigger",
                                sp.clean, sp.package, TriggerRev(bd), sp.got, b)]
    /\ UNCHANGED <<srcOwners, workerOwners, timer, pend, head, tree, lastTrigger, forced, quota, conf>>

\* (mutant) the Trigger step ignores the results of the builds it started
TriggerResultIgnore(b) == "SUCCESS"

\* result of the Trigger step: the worst result of the builds it waited for
TriggerResult(b) ==
    IF \E c \in Children(b) : builds[c].result = "FAILURE" THEN "FAILURE" ELSE "SUCCESS"

\* (mutant) waitForFinish = False
JoinReadyNoWait(b) == TRUE

\* (mutant) the Trigger step waits until a build it started reports its end
JoinReadyOnReport(b) == Children(b) # {} /\ \A c \in Children(b) : Finished(c)

\* waitForFinish = True: the Trigger step waits for every build it started
JoinReady(b) == \A c \in Children(b) : Finished(c)

\* the Trigger step ends
TriggerJoin(b) ==
    LET bd == builds[b] IN
    /\ bd.state = "running" /\ bd.kind \in {"fetch", "nightly"}
    /\ CurStep(bd) = "trigger" /\ bd.waiting
    /\ JoinReady(b)
    /\ builds' = [builds EXCEPT ![b] = StepDone(bd, TriggerResult(b), TRUE)]
    /\ UNCHANGED <<srcOwners, workerOwners, timer, pend, head, tree, lastTrigger, forced, quota, conf>>

\* the current step of a platform build runs; SetPropertyIfOlder ("check")
\* sets do_configure when configure is newer than config.mk
PlatformStep(b, ok, older) ==
    LET bd == builds[b] IN
    /\ bd.state = "running" /\ bd.kind = "platform"
    /\ CurStep(bd) # "check" => older
    /\ builds' = [builds EXCEPT ![b] = StepDone(bd, IF ok THEN "SUCCESS" ELSE "FAILURE", older)]
    /\ UNCHANGED <<srcOwners, workerOwners, timer, pend, head, tree, lastTrigger, forced, quota, conf>>

\* a finished build releases the locks of its builder
Release(b) ==
    LET bd == builds[b] IN
    /\ bd.state \in {"succeeded", "failed"}
    /\ ReleaseBuilderLocks(b, bd)
    /\ builds' = [builds EXCEPT ![b].state = "released"]
    /\ UNCHANGED <<timer, pend, head, tree, lastTrigger, forced, quota, conf>>

\* ---------------------------------------------------------------- specification
\* the (clean, package) values the operator enters in a force scheduler
Forms == {<<"True", "False">>, <<"False", "True">>}

Next ==
    \/ \E repo \in Repos, br \in Branches : Change(repo, br)
    \/ \E dt \in Dts : Tick(dt)
    \/ \E p \in Projects : BranchFire(p)
    \/ \E p \in Projects, f \in Forms : ForceFetch(p, f[1], f[2])
    \/ \E p \in Projects, e \in Platforms, f \in Forms : ForceBuild(p, e, f[1], f[2])
    \/ \E p \in Projects : NightlyTick(p)
    \/ \E b \in Ids : StartBuild(b)
    \/ \E b \in Ids : AcquireStepLock(b)
    \/ \E b \in Ids, ok \in BOOLEAN : Git(b, ok)
    \/ \E b \in Ids, ok \in BOOLEAN : Patch(b, ok)
    \/ \E b \in Ids : Signal(b)
    \/ \E b \in Ids : TriggerStart(b)
    \/ \E b \in Ids : TriggerJoin(b)
    \/ \E b \in Ids, ok \in BOOLEAN, do \in BOOLEAN : PlatformStep(b, ok, do)
    \/ \E b \in Ids : Release(b)

Spec == Init /\ [][Next]_vars

\* the steps the master takes for build b
Progress(b) ==
    /\ b \in Ids
    /\ \/ StartBuild(b)
       \/ AcquireStepLock(b)
       \/ \E ok \in BOOLEAN : Git(b, ok)
       \/ \E ok \in BOOLEAN : Patch(b, ok)
       \/ Signal(b)
       \/ TriggerStart(b)
       \/ TriggerJoin(b)
       \/ \E ok \in BOOLEAN, older \in BOOLEAN : PlatformStep(b, ok, older)
       \/ Release(b)

\* every step ends and the master grants a lock that stays available
Fairness == \A b \in 1..MaxBuilds : WF_vars(Progress(b))

\* a shorter behaviour of the same system
LiveInit ==
    /\ Start
    /\ quota = [builds |-> MaxBuilds - 1, changes |-> MaxChanges - 1, forced |-> MaxForced,
                refs |-> {Ref("master"), Ref("gsoc2012")}]

LiveSpec == LiveInit /\ [][Next]_vars /\ Fairness

\* time passes and a timer that is due fires
Clock ==
    /\ WF_vars(\E dt \in Dts : Tick(dt))
    /\ \A p \in Projects : WF_vars(BranchFire(p))

ChangeLiveSpec == LiveInit /\ [][Next]_vars /\ Fairness /\ Clock

\* the builds of master, with room for two fetch builds and a nightly build
NightInit ==
    /\ Start
    /\ quota = [builds |-> MaxBuilds + 1, changes |-> MaxChanges - 1, forced |-> MaxForced,
                refs |-> {Ref("master")}]

NightSpec == NightInit /\ [][Next]_vars

\* the branch schedulers alone, with a longer burst of changes
SchedNext ==
    \/ \E repo \in Repos, br \in Branches : Change(repo, br)
    \/ \E dt \in Dts : Tick(dt)
    \/ \E p \in Projects : BranchFire(p)

SchedInit ==
    /\ Start
    /\ quota = [builds |-> MaxBuilds, changes |-> MaxBurst, forced |-> 0, refs |-> Refs]

SchedSpec == SchedInit /\ [][SchedNext]_vars

\* ---------------------------------------------------------------- loading alone
\* the loading of the configuration
ConfNext ==
    \/ LoadSchedulers
    \/ LoadBuilders
    \/ LoadPlatformBuilders

\* nothing is loaded yet and nothing will be asked of the master
Unloaded ==
    /\ Idle
    /\ quota = [builds |-> 0, changes |-> 0, forced |-> 0, refs |-> {}]
    /\ cfg = [schedulers |-> <<>>, builders |-> <<>>]
    /\ pc = At(1, "getGlobalSchedulers", 0)

\* names the Build objects of a tried list are made with
Names == {"alpha", "beta"}

\* a platform object that has no tests, no commands and packages nothing
BarePlatform(e, can) ==
    [name |-> e, canBuild |-> can, canBuildTests |-> {}, canRunTests |-> {},
     getPackagingCmd |-> {}, getStripCmd |-> {}, canPackage |-> {}]

\* any list of up to MaxProjects Build objects, with or without nightly and
\* force schedulers, and two platforms that can build any of them
ConfInit ==
    /\ Unloaded
    /\ projects \in UNION {[1..k -> {StandardBuild(n, "example.org/" \o n, "main", at, f) :
                                        n \in Names, at \in {<<>>, <<4, 1>>}, f \in BOOLEAN}] :
                            k \in 1..MaxProjects}
    /\ catalog \in {<<BarePlatform("linux", A), BarePlatform("windows", B)>> :
                        A \in SUBSET Names, B \in SUBSET Names}

ConfSpec == ConfInit /\ [][ConfNext]_vars

\* names a Build object can be given, and names a platform can have
ProjectNames == {"alpha", "fetch", "alpha-x"}

PlatformNames == {"linux", "alpha", "x-linux"}

\* any list of up to MaxProjects Build objects (nightly, force schedulers)
\* and two platforms of different names that can build all of them
NameInit ==
    /\ Unloaded
    /\ projects \in UNION {[1..k -> {StandardBuild(n, "example.org/" \o n, "main", <<4, 1>>, TRUE) :
                                        n \in ProjectNames}] :
                            k \in 1..MaxProjects}
    /\ catalog \in {<<BarePlatform(q[1], ProjectNames), BarePlatform(q[2], ProjectNames)>> :
                        q \in {r \in PlatformNames \X PlatformNames : r[1] # r[2]}}

NameSpec == NameInit /\ [][ConfNext]_vars

\* one Build object of either class and one platform with any abilities
AssembleInit ==
    /\ Unloaded
    /\ projects \in {<<[StandardBuild("alpha", "example.org/alpha", "main", <<>>, TRUE)
                           EXCEPT !.class = cl]>> :
                        cl \in {"ScummVMBuild", "ScummVMToolsBuild"}}
    /\ catalog \in {<<[name |-> "linux", canBuild |-> {"alpha"},
                        canBuildTests |-> T, canRunTests |-> R, getPackagingCmd |-> D,
                        getStripCmd |-> S, canPackage |-> P]>> :
                        T \in SUBSET {"alpha"}, R \in SUBSET {"alpha"},
                        D \in SUBSET {"alpha"}, S \in SUBSET {"alpha"},
                        P \in SUBSET {"alpha"}}

AssembleSpec == AssembleInit /\ [][ConfNext]_vars

\* ---------------------------------------------------------------- loading and run
\* the loading of a tried list, or the run of the configuration loaded from
\* the list builds, with commits on the branches of all its projects
WholeInit ==
    \/ ConfInit
    \/ /\ Start
       /\ quota = [builds |-> MaxBuilds - 1, changes |-> MaxChanges - 1,
                   forced |-> MaxForced, refs |-> {Ref(p) : p \in Projects}]

WholeSpec == WholeInit /\ [][ConfNext \/ Next]_vars

WholeLiveSpec == WholeSpec /\ Fairness

\* ---------------------------------------------------------------- properties
\* a build that has started and not yet released the locks of its builder
Active(b) == builds[b].state \in {"running", "succeeded", "failed"}

Global(b) == builds[b].kind \in {"fetch", "nightly"}

\* C1: while the Git or Patch step of fetch-<p> holds src-<p> exclusively no
\* platform build of p is active (holds src-<p> in counting mode), and the
\* other way round, whichever scheduler started the platform build.
C1_SourceExclusion ==
    /\ \A p \in Projects : ExclOwners(p) # {} => srcOwners[p] = ExclOwners(p)
    /\ \A p \in Projects : Cardinality(ExclOwners(p)) <= 1
    /\ \A f \in Ids, c \in Ids :
          (/\ builds[f].kind = "fetch" /\ builds[f].holding
           /\ builds[c].kind = "platform" /\ builds[c].proj = builds[f].proj)
          => ~Active(c)
    /\ \A f \in Ids : builds[f].holding <=> <<f, "exclusive">> \in srcOwners[builds[f].proj]
    /\ \A c \in Ids : (builds[c].kind = "platform" /\ Active(c))
                      => <<c, "counting">> \in srcOwners[builds[c].proj]

\* a fetch holds the source lock while a forced platform build of the same
\* project waits for it
C1_Witness ==
    \E f \in Ids, c \in Ids :
        /\ builds[f].kind = "fetch" /\ builds[f].holding
        /\ builds[c].kind = "platform" /\ builds[c].proj = builds[f].proj
        /\ builds[c].origin = "force" /\ builds[c].state = "pending"

ActiveOn(w) == {b \in Ids : Active(b) /\ workername(builds[b].kind) = w}

\* C2: at most one build is active on the fetcher worker and at most
\* max_parallel_builds on the builder worker, over all projects and schedulers.
C2_WorkerCaps ==
    /\ Cardinality(ActiveOn("fetcher")) <= 1
    /\ Cardinality(ActiveOn("builder")) <= MaxParallelBuilds
    /\ \A w \in Workers : workerOwners[w] = ActiveOn(w)

\* the builder worker is full with builds of two projects started by two
\* schedulers while another platform build waits and a fetch is active
C2_Witness ==
    /\ Cardinality(ActiveOn("builder")) = MaxParallelBuilds
    /\ Cardinality(ActiveOn("fetcher")) = 1
    /\ \E b \in Ids : builds[b].kind = "platform" /\ builds[b].state = "pending"
    /\ \E b \in ActiveOn("builder"), c \in ActiveOn("builder") :
          builds[b].proj # builds[c].proj /\ builds[b].origin # builds[c].origin

\* C3: as long as a platform build started by the Trigger step of a fetch or
\* nightly build has not finished, that build is running, holds the fetcher
\* worker lock, and no other fetch or nightly build is active.
C3_FetcherHeldThroughFanOut ==
    \A c \in Ids :
        (builds[c].parent # 0 /\ ~Finished(c)) =>
            LET f == builds[c].parent IN
            /\ builds[f].state = "running"
            /\ f \in workerOwners["fetcher"]
            /\ \A g \in Ids : (Global(g) /\ g # f) => ~Active(g)
            /\ builds[f].kind = "fetch" => builds[f].got # NoRev

\* a triggered platform build runs while another fetch is requested and waits
C3_Witness ==
    \E c \in Ids, g \in Ids :
        /\ builds[c].parent # 0 /\ builds[c].state = "running"
        /\ Global(g) /\ g # builds[c].parent /\ builds[g].state = "pending"

\* C4: every build that was requested, by whichever scheduler, is started,
\* runs and releases its locks.
C4_NoDeadlock ==
    \A b \in 1..MaxBuilds :
        (b \in Ids) ~> (b \in Ids /\ builds[b].state = "released")

\* a forced platform build and a fetch of the same project, with the platform
\* builds it started, have all been released
C4_Witness ==
    \E f \in Ids, c \in Ids, d \in Ids :
        /\ builds[f].kind = "fetch" /\ builds[f].state = "released"
        /\ builds[c].parent = f /\ builds[c].state = "released"
        /\ builds[d].origin = "force" /\ builds[d].kind = "platform"
        /\ builds[d].proj = builds[f].proj /\ builds[d].state = "released"
        /\ d < c

\* C5: once a step of a platform build has failed the build is failed and
\* runs no further step.
C5_FailureStopsTarget ==
    \A b \in Ids :
        (builds[b].kind = "platform" /\ builds[b].result = "FAILURE")
        => builds[b].state \in {"failed", "released"}

\* C6: the result of a finished fetch or nightly build that started platform
\* builds is FAILURE exactly if one of them failed; one that started none
\* although it has platforms failed in its own steps.
C6_FanInResult ==
    \A f \in Ids :
        (Global(f) /\ Finished(f)) =>
            /\ Children(f) # {} =>
                  (builds[f].result = "FAILURE"
                   <=> \E c \in Children(f) : builds[c].result = "FAILURE")
            /\ (Children(f) = {} /\ comp_builders(builds[f].proj) # <<>>)
                  => builds[f].result = "FAILURE"
            /\ builds[f].state = "failed" => builds[f].result = "FAILURE"
            /\ builds[f].state = "succeeded" => builds[f].result = "SUCCESS"

\* a fetch has failed because one of two platform builds failed
C6_Witness ==
    \E f \in Ids, c \in Ids, d \in Ids :
        /\ Global(f) /\ builds[f].state = "failed"
        /\ builds[c].parent = f /\ builds[d].parent = f
        /\ builds[c].result = "FAILURE"
        /\ Finished(d) /\ builds[d].result = "SUCCESS"

BranchFetches(p) ==
    {b \in Ids : builds[b].kind = "fetch" /\ builds[b].proj = p /\ builds[b].origin = "branch"}

\* the newest revision a branch-scheduler start was made for
LastBuilt(p) ==
    IF BranchFetches(p) = {} THEN 1
    ELSE LET b == CHOOSE x \in BranchFetches(p) :
                     \A y \in BranchFetches(p) : builds[y].rev <= builds[x].rev
         IN builds[b].rev

Holds(b) ==
    {w \in Workers : b \in workerOwners[w]}
    \cup {p \in Projects : \E m \in {"counting", "exclusive"} : <<b, m>> \in srcOwners[p]}

\* C7: a build that has succeeded or failed releases its locks; a released
\* build (and one not yet started) holds neither a worker lock nor a source
\* lock, so that who waited for them can go on.
C7_FinishedReleases ==
    /\ \A b \in 1..MaxBuilds :
          (b \in Ids /\ builds[b].state \in {"succeeded", "failed"})
          ~> (b \in Ids /\ builds[b].state = "released")
    /\ [](\A b \in Ids : builds[b].state \in {"pending", "released"} => Holds(b) = {})

\* a forced platform build has failed and is released, and a fetch of the
\* same project requested after it holds the source lock exclusively
C7_Witness ==
    \E b \in Ids, f \in Ids :
        /\ builds[b].kind = "platform" /\ builds[b].state = "released"
        /\ builds[b].result = "FAILURE" /\ builds[b].origin = "force"
        /\ f > b /\ builds[f].kind = "fetch" /\ builds[f].proj = builds[b].proj
        /\ builds[f].holding

\* C8 as stated: every change that is built by one start arrived within
\* treeStableTimer of the first change of that start (a change that arrives
\* after that window belongs to a second start).
C8_FixedWindow ==
    \A p \in Projects : \A i \in DOMAIN pend[p] :
        pend[p][1] - pend[p][i] <= treeStableTimer

\* C8 amended: changes that each arrive less than treeStableTimer after the
\* one before are built by exactly one start of fetch-<p>, which is due
\* treeStableTimer after the last of them; a change that arrives after that
\* start belongs to a second start.
C8_Debounce ==
    \A p \in Projects :
        /\ timer[p] = NoTimer <=> pend[p] = <<>>
        /\ pend[p] # <<>> => pend[p][Len(pend[p])] = treeStableTimer - timer[p]
        /\ \A i \in 1..(Len(pend[p]) - 1) : pend[p][i] - pend[p][i + 1] < treeStableTimer
        /\ Len(pend[p]) = head[Ref(p)] - LastBuilt(p)
        /\ \A x \in BranchFetches(p), y \in BranchFetches(p) :
              x < y => builds[x].rev < builds[y].rev

\* after a first start, two later changes wait for one second start that is due
C8_Witness ==
    \E p \in Projects :
        /\ BranchFetches(p) # {}
        /\ Len(pend[p]) >= 2 /\ timer[p] = 0

NightlyBuilds(p) == {b \in Ids : builds[b].kind = "nightly" /\ builds[b].proj = p}

Signals(p) == {b \in Ids : builds[b].kind = "fetch" /\ builds[b].proj = p /\ builds[b].signalled}

\* C9: nightly-<p> is requested at most once for the signals of the fetch
\* builds since the request before: the requests made, and the one a recorded
\* revision still allows, never outnumber the signals; without nightly there
\* is none.
C9_NightlyOnlyIfSignalled ==
    \A p \in Projects :
        /\ Cardinality(NightlyBuilds(p)) + (IF lastTrigger[p] # NoRev THEN 1 ELSE 0)
              <= Cardinality(Signals(p))
        /\ Signals(p) # {} => HasNightly(p)
        /\ \A n \in NightlyBuilds(p) :
              \E f \in Signals(p) : f < n /\ builds[f].got = builds[n].rev

\* the nightly build was requested and nothing new is recorded
C9_Witness ==
    \E p \in Projects :
        /\ NightlyBuilds(p) # {} /\ lastTrigger[p] = NoRev
        /\ Cardinality(Signals(p)) = 1

Falsy(v) == v \in {None, "False"}

\* C10: a platform build started by a fetch build has the got_revision, clean
\* and package of that build (not true after a branch-scheduler start, the
\* operator's values after a forced one); one started by a nightly build has
\* clean and package true.
C10_PropertyPropagation ==
    \A c \in Ids :
        builds[c].parent # 0 =>
            LET f == builds[builds[c].parent] IN
            /\ f.kind = "fetch" =>
                  /\ builds[c].got = f.got /\ builds[c].rev = f.got /\ f.got # NoRev
                  /\ builds[c].clean = f.clean /\ builds[c].package = f.package
                  /\ f.origin = "branch" => Falsy(builds[c].clean) /\ Falsy(builds[c].package)
                  /\ f.origin = "force" => builds[c].clean \in {"True", "False"}
            /\ f.kind = "nightly" =>
                  /\ builds[c].clean = "True" /\ builds[c].package = "True"
                  /\ builds[c].rev = f.rev

\* platform builds of a nightly build and of a forced fetch with clean set
C10_Witness ==
    /\ \E c \in Ids : builds[c].parent # 0 /\ builds[builds[c].parent].kind = "nightly"
    /\ \E c \in Ids : /\ builds[c].parent # 0
                      /\ builds[builds[c].parent].origin = "force"
                      /\ builds[c].clean = "True" /\ builds[c].package = "False"

\* C11: a change makes branch-scheduler-<p> take it (and set its timer) exactly
\* if it is a commit on <p>'s own branch of <p>'s own repository, reported
\* under baseurl or giturl; when the scheduler fires, exactly one request is
\* made, for fetch-<p>; projects that share a repository on different
\* branches never take each other's changes.
C11_BranchSchedulerFilter ==
    /\ [][\A p \in Projects :
             (pend'[p] = Append(pend[p], 0) /\ timer'[p] = treeStableTimer)
             <=> head'[Ref(p)] = head[Ref(p)] + 1]_vars
    /\ [][\A p \in Projects :
             (timer[p] = 0 /\ timer'[p] = NoTimer) =>
                 /\ Len(builds') = Len(builds) + 1
                 /\ \A b \in Ids : builds'[b] = builds[b]
                 /\ LET bd == builds'[Len(builds')] IN
                    /\ bd.kind = "fetch" /\ bd.proj = p /\ bd.parent = 0
                    /\ bd.origin = "branch" /\ bd.rev = head[Ref(p)]]_vars
    /\ [](\A b \in Ids : builds[b].origin = "branch" =>
              /\ builds[b].kind = "fetch" /\ builds[b].parent = 0
              /\ builds[b].rev > 1 /\ builds[b].rev <= head[Ref(builds[b].proj)])

\* fetch-stable was requested after a commit on branch-2-2 while master, on
\* the same repository, saw nothing, and a commit on a branch nobody watches
\* was reported
C11_Witness ==
    /\ BranchFetches("stable") # {} /\ BranchFetches("master") = {}
    /\ head[Ref("master")] = 1 /\ pend["master"] = <<>>
    /\ \E r \in Refs : head[r] > 1 /\ \A p \in Projects : r # Ref(p)

Range(f) == {f[i] : i \in DOMAIN f}

\* what a call has added to a list of the configuration
Added(old, new) == SubSeq(new, Len(old) + 1, Len(new))

\* the Build object the loading is at
Self == projects[pc.build]

\* the platforms of the catalog that can build self
Eligible(self) == {pl.name : pl \in {q \in Range(catalog) : self.name \in q.canBuild}}

\* the names of the platform builders of self
Targets(self) == {self.name \o "-" \o e : e \in Eligible(self)}

\* the scheduler of the loaded configuration that has this name
SchedulerNamed(n) == CHOOSE sch \in Range(cfg.schedulers) : sch.name = n

\* C12: for a Build object P with nightly and force, getGlobalSchedulers gives
\* exactly branch-scheduler-P (for fetch-P), nightly-scheduler-P (for
\* nightly-P), build-scheduler-P (for P-e, e eligible), force-scheduler-P-fetch
\* and force-scheduler-P-build; getGlobalBuilders and getPerPlatformBuilders
\* give exactly fetch-P, nightly-P and P-e for every eligible e; fetch-P
\* updates the source first and last triggers build-scheduler-P and waits.
\* In the run, a fetch build that is at its Trigger step has updated the
\* source, has requested exactly the builders of build-scheduler-P, and goes
\* on only when all of them have finished.
C12_GeneratedGraph ==
    /\ [][(pc.call = "getGlobalSchedulers" /\ pc' # pc
            /\ Self.nightly # <<>> /\ Self.enable_force) =>
              LET new == Added(cfg.schedulers, cfg'.schedulers)
                  P == Self.name
                  named(n) == {sch \in Range(new) : sch.name = n}
              IN
              /\ Len(new) = 5 /\ cfg'.builders = cfg.builders
              /\ {sch.name : sch \in Range(new)} =
                    {"branch-scheduler-" \o P, "nightly-scheduler-" \o P,
                     "build-scheduler-" \o P, "force-scheduler-" \o P \o "-fetch",
                     "force-scheduler-" \o P \o "-build"}
              /\ \A sch \in named("branch-scheduler-" \o P)
                         \cup named("force-scheduler-" \o P \o "-fetch") :
                     sch.builderNames = <<"fetch-" \o P>>
              /\ \A sch \in named("nightly-scheduler-" \o P) :
                     sch.builderNames = <<"nightly-" \o P>>
              /\ \A sch \in named("build-scheduler-" \o P)
                         \cup named("force-scheduler-" \o P \o "-build") :
                     /\ Range(sch.builderNames) = Targets(Self)
                     /\ Len(sch.builderNames) = Cardinality(Targets(Self))]_vars
    /\ [][(pc.call = "getGlobalBuilders" /\ pc' # pc
            /\ Self.nightly # <<>> /\ Self.enable_force) =>
              LET new == Added(cfg.builders, cfg'.builders)
                  P == Self.name
              IN
              /\ cfg'.schedulers = cfg.schedulers
              /\ [i \in DOMAIN new |-> new[i].name] = <<"fetch-" \o P, "nightly-" \o P>>
              /\ new[1].factory[1].step = "git"
              /\ \A i \in 1..2 :
                    LET last == new[i].factory[Len(new[i].factory)] IN
                    /\ last.schedulerNames = <<"build-scheduler-" \o P>>
                    /\ last.waitForFinish]_vars
    /\ [][(pc.call = "getPerPlatformBuilders" /\ pc' # pc
            /\ Self.nightly # <<>> /\ Self.enable_force) =>
              LET new == Added(cfg.builders, cfg'.builders)
                  e == catalog[pc.platform].name
              IN
              /\ cfg'.schedulers = cfg.schedulers
              /\ [i \in DOMAIN new |-> new[i].name] =
                    IF e \in Eligible(Self) THEN <<Self.name \o "-" \o e>> ELSE <<>>]_vars
    /\ [](\A f \in Ids :
            (builds[f].kind = "fetch" /\ builds[f].waiting) =>
                LET sch == SchedulerNamed("build-scheduler-" \o builds[f].proj) IN
                /\ builds[f].got # NoRev /\ tree[builds[f].proj] = builds[f].got
                /\ {builds[ch].proj \o "-" \o builds[ch].plat : ch \in Children(f)}
                      = Range(sch.builderNames)
                /\ Cardinality(Children(f)) = Len(sch.builderNames)
                /\ \A ch \in Children(f) : builds[ch].kind = "platform")
    /\ [](\A ch \in Ids :
            (builds[ch].parent # 0 /\ ~Finished(ch)) =>
                builds[builds[ch].parent].waiting /\ builds[builds[ch].parent].state = "running")

\* the whole of a list of two Build objects is loaded, one of them with
\* nightly and force and buildable on both platforms
C12_Witness ==
    /\ pc.call = "done" /\ Len(projects) = 2 /\ projects[1].name # projects[2].name
    /\ \E i \in DOMAIN projects :
          /\ projects[i].nightly # <<>> /\ projects[i].enable_force
          /\ Eligible(projects[i]) = {"linux", "windows"}
    /\ Len(cfg.builders) > 3

\* the steps of a factory that trigger the scheduler named n
Triggering(f, n) == {i \in DOMAIN f : n \in Range(f[i].schedulerNames)}

\* C13: for a Build object P without nightly, getGlobalSchedulers gives no
\* NightlyTriggerable and no scheduler (force schedulers included) for
\* nightly-P, getGlobalBuilders gives fetch-P alone, and no step of fetch-P
\* triggers nightly-scheduler-P; with nightly there is exactly one
\* NightlyTriggerable, for nightly-P, exactly one builder nightly-P, whose one
\* step triggers build-scheduler-P and waits, as the last step of fetch-P
\* does, and fetch-P triggers nightly-scheduler-P once, without waiting.
C13_NightlyNodes ==
    /\ [][(pc.call = "getGlobalSchedulers" /\ pc' # pc) =>
              LET new == Added(cfg.schedulers, cfg'.schedulers)
                  P == Self.name
                  timed == {i \in DOMAIN new : new[i].class = "NightlyTriggerable"}
                  forNightly == {i \in DOMAIN new :
                                    "nightly-" \o P \in Range(new[i].builderNames)}
              IN
              IF Self.nightly = <<>>
              THEN timed = {} /\ forNightly = {}
              ELSE /\ Cardinality(timed) = 1 /\ forNightly = timed
                   /\ \A i \in timed : /\ new[i].name = "nightly-scheduler-" \o P
                                       /\ new[i].builderNames = <<"nightly-" \o P>>]_vars
    /\ [][(pc.call = "getGlobalBuilders" /\ pc' # pc) =>
              LET new == Added(cfg.builders, cfg'.builders)
                  P == Self.name
                  fetch == new[1].factory
                  recorders == {i \in DOMAIN new : new[i].name = "nightly-" \o P}
              IN
              /\ new[1].name = "fetch-" \o P
              /\ Triggering(fetch, "build-scheduler-" \o P) = {Len(fetch)}
              /\ fetch[Len(fetch)].waitForFinish
              /\ IF Self.nightly = <<>>
                 THEN /\ Len(new) = 1 /\ recorders = {}
                      /\ Triggering(fetch, "nightly-scheduler-" \o P) = {}
                      /\ \A i \in DOMAIN fetch :
                            fetch[i].schedulerNames # <<>> => i = Len(fetch)
                 ELSE /\ Len(new) = 2 /\ recorders = {2}
                      /\ new[2].workername = "fetcher"
                      /\ Len(new[2].factory) = 1
                      /\ Triggering(new[2].factory, "build-scheduler-" \o P) = {1}
                      /\ new[2].factory[1].waitForFinish
                      /\ Triggering(fetch, "nightly-scheduler-" \o P) = {Len(fetch) - 1}
                      /\ ~fetch[Len(fetch) - 1].waitForFinish]_vars
    /\ [][(pc.call = "getPerPlatformBuilders" /\ pc' # pc) =>
              LET new == Added(cfg.builders, cfg'.builders) IN
              \A i \in DOMAIN new :
                  /\ new[i].name # "nightly-" \o Self.name
                  /\ \A k \in DOMAIN new[i].factory :
                        new[i].factory[k].schedulerNames = <<>>]_vars

\* a list of a Build object without nightly and one with nightly is loaded
C13_Witness ==
    /\ pc.call = "done" /\ Len(projects) = 2 /\ projects[1].name # projects[2].name
    /\ projects[1].nightly = <<>> /\ projects[2].nightly # <<>>
    /\ Eligible(projects[1]) # {} /\ Eligible(projects[2]) # {}

\* C14: for a Build object P that no platform can build, branch-scheduler-P
\* and fetch-P are made all the same, build-scheduler-P (and
\* force-scheduler-P-build) has an empty builderNames, and no platform
\* builder is made.  In the run, a fetch build of a project whose
\* build-scheduler has no builder starts no build at its Trigger step, the
\* step ends with SUCCESS, the build fails only if its own Git or Patch step
\* did, and it is released in the end.
C14_EmptyFanOut ==
    /\ [][(pc.call = "getGlobalSchedulers" /\ pc' # pc /\ Eligible(Self) = {}) =>
              LET new == Added(cfg.schedulers, cfg'.schedulers)
                  P == Self.name
              IN
              /\ new[1] = Scheduler("SingleBranchScheduler", "branch-scheduler-" \o P,
                                    <<"fetch-" \o P>>)
              /\ \E i \in DOMAIN new : new[i].name = "build-scheduler-" \o P
              /\ \A i \in DOMAIN new :
                    new[i].name \in {"build-scheduler-" \o P,
                                     "force-scheduler-" \o P \o "-build"}
                    => new[i].builderNames = <<>>]_vars
    /\ [][(pc.call = "getGlobalBuilders" /\ pc' # pc /\ Eligible(Self) = {}) =>
              LET new == Added(cfg.builders, cfg'.builders) IN
              /\ new[1].name = "fetch-" \o Self.name
              /\ Triggering(new[1].factory, "build-scheduler-" \o Self.name)
                    = {Len(new[1].factory)}]_vars
    /\ [][(pc.call = "getPerPlatformBuilders" /\ pc' # pc /\ Eligible(Self) = {}) =>
              cfg' = cfg]_vars
    /\ [](\A f \in Ids :
            (/\ builds[f].kind = "fetch"
             /\ SchedulerNamed("build-scheduler-" \o builds[f].proj).builderNames = <<>>)
            => /\ Children(f) = {}
               /\ builds[f].waiting => ENABLED TriggerJoin(f)
               /\ (Finished(f) /\ builds[f].got # NoRev /\ PATCHES(builds[f].proj) = 0)
                     => builds[f].result = "SUCCESS")
    /\ [][\A f \in Ids :
            (/\ builds[f].kind = "fetch" /\ builds[f].waiting /\ ~builds'[f].waiting
             /\ SchedulerNamed("build-scheduler-" \o builds[f].proj).builderNames = <<>>)
            => builds'[f].state = "succeeded"]_vars
    /\ \A f \in 1..MaxBuilds :
          (/\ f \in Ids /\ builds[f].kind = "fetch"
           /\ SchedulerNamed("build-scheduler-" \o builds[f].proj).builderNames = <<>>)
          ~> (f \in Ids /\ builds[f].state = "released")

\* a fetch build of stable, which no platform can build, was requested by the
\* branch scheduler, has signalled the nightly scheduler, has succeeded and
\* is released
C14_Witness ==
    \E f \in Ids :
        /\ builds[f].kind = "fetch" /\ builds[f].origin = "branch"
        /\ SchedulerNamed("build-scheduler-" \o builds[f].proj).builderNames = <<>>
        /\ builds[f].signalled
        /\ builds[f].state = "released" /\ builds[f].result = "SUCCESS"

\* C15: a list with two Build objects of one name is refused when the
\* configuration is made: no scheduler and no builder is made from it.
C15_DuplicateNameFatal ==
    (\E i \in DOMAIN projects, j \in DOMAIN projects :
        i # j /\ projects[i].name = projects[j].name)
    => (cfg.schedulers = <<>> /\ cfg.builders = <<>>)

\* C16: a commit on the branch of a project, also one that arrives while
\* fetch-<p> runs, is built by a later fetch-<p> that the branch scheduler
\* requests and that is started; a change cancels no build and frees no
\* lock, a running build goes on to its end, and two fetch builds of a
\* project are never active together (so the later one updates the source
\* after the earlier one has given back the source lock).
C16_ChangeWhileFetching ==
    /\ \A p \in Projects : \A r \in 2..(MaxChanges + 1) :
          (head[Ref(p)] >= r)
          ~> (\E g \in Ids : /\ builds[g].kind = "fetch" /\ builds[g].proj = p
                             /\ builds[g].origin = "branch" /\ builds[g].rev >= r
                             /\ builds[g].state # "pending")
    /\ [][head' # head =>
            (builds' = builds /\ srcOwners' = srcOwners /\ workerOwners' = workerOwners)]_vars
    /\ [][\A f \in Ids :
            /\ builds[f].state = "running"
                  => builds'[f].state \in {"running", "succeeded", "failed"}
            /\ builds[f].state = "pending" => builds'[f].state \in {"pending", "running"}]_vars
    /\ [](\A f \in Ids, g \in Ids :
            (/\ f # g /\ builds[f].kind = "fetch" /\ builds[g].kind = "fetch"
             /\ builds[f].proj = builds[g].proj)
            => /\ ~(Active(f) /\ Active(g))
               /\ ~(builds[f].holding /\ builds[g].holding))

\* while a fetch build waits for the platform builds it started, the branch
\* scheduler has requested another fetch build of the project, which waits
C16_Witness ==
    \E f \in Ids, g \in Ids, ch \in Ids :
        /\ builds[ch].parent = f /\ ch < g
        /\ builds[f].kind = "fetch" /\ builds[f].state = "running"
        /\ builds[g].kind = "fetch" /\ builds[g].proj = builds[f].proj
        /\ builds[g].origin = "branch" /\ builds[g].state = "pending"

\* C17: while fetch-<p> of a project with patches is between the start of
\* its source update and the end of its Patch step, no platform build of
\* the project holds src-<p> in counting mode.
C17_ExclusiveThroughPatch ==
    \A f \in Ids, c \in Ids :
        (/\ builds[f].kind = "fetch" /\ builds[f].state = "running"
         /\ PATCHES(builds[f].proj) > 0
         /\ \/ CurStep(builds[f]) = "git" /\ builds[f].holding
            \/ CurStep(builds[f]) = "patch"
         /\ builds[c].kind = "platform" /\ builds[c].proj = builds[f].proj)
        => <<c, "counting">> \notin srcOwners[builds[f].proj]

\* C19: a fetch build that waits in its Trigger step for the platform builds
\* it started holds no exclusive access to src-<p> and no place on the
\* worker of the platform builds: what a waiting platform build needs is
\* never owned by the build that waits for it.
C19_NoLockWhileJoining ==
    \A f \in Ids :
        (/\ builds[f].kind = "fetch" /\ builds[f].state = "running"
         /\ CurStep(builds[f]) = "trigger" /\ builds[f].waiting)
        => /\ <<f, "exclusive">> \notin srcOwners[builds[f].proj]
           /\ ~builds[f].holding
           /\ \A c \in Children(f) :
                 /\ f \notin workerOwners[workername(builds[c].kind)]
                 /\ \A m \in SrcAccess(builds[c].kind) :
                       \A o \in srcOwners[builds[c].proj] :
                          (m = "counting" /\ o[2] = "exclusive") => o[1] # f

\* a fetch build waits for a platform build it started that has not begun
C19_Witness ==
    \E f \in Ids, c \in Ids :
        /\ builds[f].kind = "fetch" /\ builds[f].state = "running"
        /\ CurStep(builds[f]) = "trigger" /\ builds[f].waiting
        /\ builds[c].parent = f /\ builds[c].state = "pending"

\* the places of step s in factory f
StepsAt(f, s) == {k \in DOMAIN f : f[k].step = s}

C20_NightlyReadsRecorded ==
    \A c \in Ids :
        (/\ builds[c].kind = "platform" /\ builds[c].state = "running"
         /\ builds[c].parent # 0 /\ builds[builds[c].parent].kind = "nightly")
        => tree[builds[c].proj] = builds[builds[c].parent].rev

\* no two elements of the sequence have the same name
DistinctNames(seq) ==
    \A i \in DOMAIN seq, j \in DOMAIN seq : i # j => seq[i].name # seq[j].name

\* C21: when the Build objects have different names and the platforms have
\* different names, the builders made have different names and the
\* schedulers made have different names.
C21_GeneratedNamesDistinct ==
    (DistinctNames(projects) /\ DistinctNames(catalog))
    => (DistinctNames(cfg.builders) /\ DistinctNames(cfg.schedulers))

\* the part of C21 about the schedulers alone
SchedulerNamesDistinct ==
    (DistinctNames(projects) /\ DistinctNames(catalog)) => DistinctNames(cfg.schedulers)

====
